---- MODULE Spec2Model ----
(***************************************************************************)
(* Model of the multihash codec of src/lib.rs: encode, Multihash,          *)
(* MultihashRef, and the Hash registry (hashes.rs) they rely on.           *)
(*                                                                         *)
(* Bytes are naturals 0..255, byte vectors and slices are sequences.  Rust *)
(* index i is TLA+ index i + 1.  A call either returns a value or panics;  *)
(* a panic is the outcome kind "Panic" and ends the calling process.       *)
(***************************************************************************)
EXTENDS Naturals, Sequences, FiniteSets

VARIABLES
    caller,   \* "decoder": starts from supplied bytes; "encoder": starts from hashing
    buf,      \* the caller's byte vector (Vec<u8>), or moved away
    m,        \* the caller's Multihash, if any
    v,        \* the caller's MultihashRef, if any, and the storage it borrows
    res,      \* the return value of the last call
    pc        \* "run", or "aborted" once a call panicked

vars == <<caller, buf, m, v, res, pc>>

----------------------------------------------------------------------------
(* Bounds of the model *)

\* longest byte vector handed to from_slice / from_bytes
MaxInputLen == 67

\* longest input handed to encode
MaxDataLen == 1

----------------------------------------------------------------------------
(* hashes.rs: the Hash enumeration and its tables *)

HashIds ==
    { "SHA1", "SHA2256", "SHA2512", "SHA3512", "SHA3384", "SHA3256", "SHA3224",
      "Keccak224", "Keccak256", "Keccak384", "Keccak512", "Blake2b", "Blake2s" }

\* Hash::code with the tag of SHA2-512 given to SHA3-512 too
Code_duplicate_tag(h) ==
    CASE h = "SHA1"      -> 17
      [] h = "SHA2256"   -> 18
      [] h = "SHA2512"   -> 19
      [] h = "SHA3512"   -> 19
      [] h = "SHA3384"   -> 21
      [] h = "SHA3256"   -> 22
      [] h = "SHA3224"   -> 23
      [] h = "Keccak224" -> 26
      [] h = "Keccak256" -> 27
      [] h = "Keccak384" -> 28
      [] h = "Keccak512" -> 29
      [] h = "Blake2b"   -> 64
      [] h = "Blake2s"   -> 65

\* Hash::code
Code(h) ==
    CASE h = "SHA1"      -> 17
      [] h = "SHA2256"   -> 18
      [] h = "SHA2512"   -> 19
      [] h = "SHA3512"   -> 20
      [] h = "SHA3384"   -> 21
      [] h = "SHA3256"   -> 22
      [] h = "SHA3224"   -> 23
      [] h = "Keccak224" -> 26
      [] h = "Keccak256" -> 27
      [] h = "Keccak384" -> 28
      [] h = "Keccak512" -> 29
      [] h = "Blake2b"   -> 64
      [] h = "Blake2s"   -> 65

\* Hash::size
Size(h) ==
    CASE h = "SHA1"      -> 20
      [] h = "SHA2256"   -> 32
      [] h = "SHA2512"   -> 64
      [] h = "SHA3512"   -> 64
      [] h = "SHA3384"   -> 48
      [] h = "SHA3256"   -> 32
      [] h = "SHA3224"   -> 28
      [] h = "Keccak224" -> 28
      [] h = "Keccak256" -> 32
      [] h = "Keccak384" -> 48
      [] h = "Keccak512" -> 64
      [] h = "Blake2b"   -> 64
      [] h = "Blake2s"   -> 32

\* Option<Hash>
NoneHash == [some |-> FALSE, hash |-> "none"]

SomeHash(h) == [some |-> TRUE, hash |-> h]

\* Hash::from_code
from_code(code) ==
    CASE code = 17 -> SomeHash("SHA1")
      [] code = 18 -> SomeHash("SHA2256")
      [] code = 19 -> SomeHash("SHA2512")
      [] code = 20 -> SomeHash("SHA3512")
      [] code = 21 -> SomeHash("SHA3384")
      [] code = 22 -> SomeHash("SHA3256")
      [] code = 23 -> SomeHash("SHA3224")
      [] code = 26 -> SomeHash("Keccak224")
      [] code = 27 -> SomeHash("Keccak256")
      [] code = 28 -> SomeHash("Keccak384")
      [] code = 29 -> SomeHash("Keccak512")
      [] code = 64 -> SomeHash("Blake2b")
      [] code = 65 -> SomeHash("Blake2s")
      [] OTHER     -> NoneHash

----------------------------------------------------------------------------
(* The digest routines of sha1, sha2 and tiny_keccak, as used by encode!   *)

\* match_encoder! with the Keccak512 arm left out
Encoders_missing_arm ==
    { "SHA1", "SHA2256", "SHA2512", "SHA3224", "SHA3256", "SHA3384", "SHA3512",
      "Keccak224", "Keccak256", "Keccak384" }

\* the arms of match_encoder! in encode
Encoders ==
    { "SHA1", "SHA2256", "SHA2512", "SHA3224", "SHA3256", "SHA3384", "SHA3512",
      "Keccak224", "Keccak256", "Keccak384", "Keccak512" }

\* which arm of encode! an identifier is bound to
Lib(h) ==
    CASE h = "SHA1"                 -> "sha1"
      [] h \in {"SHA2256", "SHA2512"} -> "sha2"
      [] OTHER                        -> "tiny"

\* output length of the digest routine bound to h (a property of the routine)
DigestLen(h) ==
    CASE h = "SHA1"      -> 20
      [] h = "SHA2256"   -> 32
      [] h = "SHA2512"   -> 64
      [] h = "SHA3224"   -> 28
      [] h = "SHA3256"   -> 32
      [] h = "SHA3384"   -> 48
      [] h = "SHA3512"   -> 64
      [] h = "Keccak224" -> 28
      [] h = "Keccak256" -> 32
      [] h = "Keccak384" -> 48
      [] h = "Keccak512" -> 64

RECURSIVE SumBytes(_)
SumBytes(s) == IF s = <<>> THEN 0 ELSE Head(s) + SumBytes(Tail(s))

\* a distinct constant per routine
RoutineId(h) ==
    CASE h = "SHA1"      -> 1
      [] h = "SHA2256"   -> 2
      [] h = "SHA2512"   -> 3
      [] h = "SHA3224"   -> 4
      [] h = "SHA3256"   -> 5
      [] h = "SHA3384"   -> 6
      [] h = "SHA3512"   -> 7
      [] h = "Keccak224" -> 8
      [] h = "Keccak256" -> 9
      [] h = "Keccak384" -> 10
      [] h = "Keccak512" -> 11

\* the first n bytes the routine of h produces for input: a deterministic
\* function of the routine, the input and the position (the bit-level
\* computation is that of the external crates)
Squeeze(h, input, n) ==
    LET state == RoutineId(h) * 19 + SumBytes(input) * 31 + Len(input) * 7
    IN  [i \in 1..n |-> (state + i * 13) % 256]

\* the raw digest of h over input
RawHash(h, input) == Squeeze(h, input, DigestLen(h))

\* encode! whose tiny arm never feeds the input to the sponge
encode_macro_no_update(h, input, outLen) ==
    IF Lib(h) \in {"sha1", "sha2"}
    THEN IF Len(RawHash(h, input)) = outLen
         THEN [kind |-> "Ok", bytes |-> RawHash(h, input)]
         ELSE [kind |-> "Panic", bytes |-> <<>>]
    ELSE [kind |-> "Ok", bytes |-> Squeeze(h, <<>>, outLen)]

\* encode!(lib, method, input, output): the bytes written to an output slice
\* of outLen bytes, or a panic (copy_from_slice on slices of unequal length)
encode_macro(h, input, outLen) ==
    IF Lib(h) \in {"sha1", "sha2"}
    THEN IF Len(RawHash(h, input)) = outLen
         THEN [kind |-> "Ok", bytes |-> RawHash(h, input)]
         ELSE [kind |-> "Panic", bytes |-> <<>>]
    ELSE [kind |-> "Ok", bytes |-> Squeeze(h, input, outLen)]

----------------------------------------------------------------------------
(* Return values *)

Ret(kind, error, bytes) == [kind |-> kind, error |-> error, bytes |-> bytes]

Ok(bytes) == Ret("Ok", "none", bytes)

Err(error, bytes) == Ret("Err", error, bytes)

Panic == Ret("Panic", "none", <<>>)

----------------------------------------------------------------------------
(* lib.rs *)

\* encode that never writes the digest length at offset 1
encode_no_length(hash, input) ==
    LET size   == Size(hash)
        output == [i \in 1..(2 + size) |-> IF i = 1 THEN Code(hash) ELSE 0]
    IN  IF hash \in Encoders
        THEN LET w == encode_macro(hash, input, Len(output) - 2)
             IN  IF w.kind = "Panic"
                 THEN Panic
                 ELSE Ok(SubSeq(output, 1, 2) \o w.bytes)
        ELSE Err("UnsupportedType", <<>>)

\* encode that writes the digest length at offset 0 as well
encode_length_as_tag(hash, input) ==
    LET size   == Size(hash)
        output == [i \in 1..(2 + size) |-> IF i \in {1, 2} THEN size ELSE 0]
    IN  IF hash \in Encoders
        THEN LET w == encode_macro(hash, input, Len(output) - 2)
             IN  IF w.kind = "Panic"
                 THEN Panic
                 ELSE Ok(SubSeq(output, 1, 2) \o w.bytes)
        ELSE Err("UnsupportedType", <<>>)

\* pub fn encode(hash, input) -> Result<Multihash, EncodeError>
encode(hash, input) ==
    LET size   == Size(hash)
        output == [i \in 1..(2 + size) |->
                     IF i = 1 THEN Code(hash) ELSE IF i = 2 THEN size ELSE 0]
    IN  IF hash \in Encoders
        THEN LET w == encode_macro(hash, input, Len(output) - 2)
             IN  IF w.kind = "Panic"
                 THEN Panic
                 ELSE Ok(SubSeq(output, 1, 2) \o w.bytes)
        ELSE Err("UnsupportedType", <<>>)

\* from_slice without the comparison of input[1] with the registry size
from_slice_no_declared_check(input) ==
    IF Len(input) = 0 THEN Err("BadInputLength", <<>>)
    ELSE IF input[1] >= 128 THEN Err("BadInputLength", <<>>)
    ELSE IF Len(input) < 2 THEN Panic
    ELSE IF input[2] >= 128 THEN Err("BadInputLength", <<>>)
    ELSE IF ~from_code(input[1]).some THEN Err("UnknownCode", <<>>)
    ELSE LET hash_len == Size(from_code(input[1]).hash)
         IN  IF Len(input) # hash_len + 2 THEN Err("BadInputLength", <<>>)
             ELSE Ok(input)

\* MultihashRef::from_slice(input) -> Result<MultihashRef, DecodeError>
from_slice(input) ==
    IF Len(input) = 0 THEN Err("BadInputLength", <<>>)
    ELSE IF input[1] >= 128 THEN Err("BadInputLength", <<>>)
    ELSE IF Len(input) < 2 THEN Panic                  \* input[1] out of bounds
    ELSE IF input[2] >= 128 THEN Err("BadInputLength", <<>>)
    ELSE IF ~from_code(input[1]).some THEN Err("UnknownCode", <<>>)
    ELSE LET hash_len == Size(from_code(input[1]).hash)
         IN  IF Len(input) # hash_len + 2 THEN Err("BadInputLength", <<>>)
             ELSE IF input[2] # hash_len THEN Err("BadInputLength", <<>>)
             ELSE Ok(input)

\* from_bytes that drops the rejected vector instead of returning it
from_bytes_drops_data(bytes) ==
    LET r == from_slice(bytes)
    IN  IF r.kind = "Panic" THEN Panic
        ELSE IF r.kind = "Err" THEN Err(r.error, <<>>)
        ELSE Ok(bytes)

\* Multihash::from_bytes(bytes) -> Result<Multihash, DecodeOwnedError>
from_bytes(bytes) ==
    LET r == from_slice(bytes)
    IN  IF r.kind = "Panic" THEN Panic
        ELSE IF r.kind = "Err" THEN Err(r.error, bytes)
        ELSE Ok(bytes)

\* Multihash::into_bytes
into_bytes(self) == self.bytes

\* Multihash::as_ref
as_ref(self) == [bytes |-> self.bytes]

\* MultihashRef::algorithm
algorithm(self) ==
    IF Len(self.bytes) = 0 THEN [kind |-> "Panic", hash |-> "none"]
    ELSE IF ~from_code(self.bytes[1]).some THEN [kind |-> "Panic", hash |-> "none"]
    ELSE [kind |-> "Ok", hash |-> from_code(self.bytes[1]).hash]

\* MultihashRef::digest
digest(self) ==
    IF Len(self.bytes) < 2 THEN Panic
    ELSE Ok(SubSeq(self.bytes, 3, Len(self.bytes)))

\* MultihashRef::to_owned
to_owned(self) == [bytes |-> self.bytes]

\* MultihashRef::as_bytes
as_bytes(self) == self.bytes

\* Multihash::algorithm
Multihash_algorithm(self) == algorithm(as_ref(self))

\* Multihash::digest
Multihash_digest(self) == digest(as_ref(self))

\* slice equality, as [u8]: PartialEq
SliceEq(a, b) == Len(a) = Len(b) /\ \A i \in 1..Len(a) : a[i] = b[i]

\* impl PartialEq<MultihashRef> for Multihash
eq_owned_ref(self, other) == SliceEq(self.bytes, other.bytes)

\* MultihashRef == Multihash comparing the two header bytes only
eq_ref_owned_header_only(self, other) ==
    SliceEq(SubSeq(self.bytes, 1, 2), SubSeq(other.bytes, 1, 2))

\* impl PartialEq<Multihash> for MultihashRef
eq_ref_owned(self, other) == SliceEq(self.bytes, other.bytes)

\* #[derive(PartialEq)] on Multihash
eq_owned(self, other) == SliceEq(self.bytes, other.bytes)

\* #[derive(PartialEq)] on MultihashRef
eq_ref(self, other) == SliceEq(self.bytes, other.bytes)

----------------------------------------------------------------------------
(* The caller: what it holds, and the inputs it supplies *)

NoBuf == [some |-> FALSE, bytes |-> <<>>]

SomeBuf(bytes) == [some |-> TRUE, bytes |-> bytes]

NoMultihash == [some |-> FALSE, via |-> "none", val |-> [bytes |-> <<>>]]

\* a Multihash and the constructor that built it
SomeMultihash(bytes, via) == [some |-> TRUE, via |-> via, val |-> [bytes |-> bytes]]

NoRef == [some |-> FALSE, src |-> "none"]

\* a MultihashRef borrowing the caller's vector ("buf") or its Multihash ("m")
SomeRef(src) == [some |-> TRUE, src |-> src]

\* the MultihashRef the caller holds: it aliases the storage it borrows
RefVal == IF v.src = "buf" THEN [bytes |-> buf.bytes] ELSE as_ref(m.val)

\* the borrow of a moved or replaced storage has ended
DropIfFrom(srcs) == IF v.some /\ v.src \in srcs THEN NoRef ELSE v

Call(op, hash, arg, r) ==
    [op |-> op, hash |-> hash, arg |-> arg,
     kind |-> r.kind, error |-> r.error, bytes |-> r.bytes, eq |-> <<>>]

NoCall == Call("none", "none", <<>>, Ret("none", "none", <<>>))

After(r) == IF r.kind = "Panic" THEN "aborted" ELSE "run"

\* first bytes supplied: registered tags, unassigned tags, tags with the high bit
TagSamples == { Code(h) : h \in HashIds } \cup {0, 24, 127, 128, 255}

\* second bytes supplied with tag t
LenSamples(t) ==
    {0, 20, 32, 127, 128} \cup (IF from_code(t).some THEN {Size(from_code(t).hash)} ELSE {})

\* the bytes after the first two
Filler(n) == [i \in 1..n |-> (i * 37 + 200) % 256]

\* the vectors of n bytes starting with tag t
InputsOf(t, n) ==
    { SubSeq(<<t, d>> \o Filler(MaxInputLen), 1, n) : d \in LenSamples(t) }

Inputs == UNION { InputsOf(t, n) : t \in TagSamples, n \in 0..MaxInputLen }

RECURSIVE Repeat(_, _)
Repeat(b, n) == IF n = 0 THEN <<>> ELSE <<b>> \o Repeat(b, n - 1)

Data == { Repeat(97, n) : n \in 0..MaxDataLen }

----------------------------------------------------------------------------
(* The calls *)

Init ==
    /\ caller \in {"decoder", "encoder"}
    /\ buf \in IF caller = "decoder" THEN { SomeBuf(i) : i \in Inputs } ELSE {NoBuf}
    /\ m = NoMultihash
    /\ v = NoRef
    /\ res = NoCall
    /\ pc = "run"

\* let m = encode(hash, input), into the caller's empty slot
Encode ==
    /\ pc = "run"
    /\ caller = "encoder"
    /\ ~m.some
    /\ \E hash \in HashIds, input \in Data :
         LET r == encode(hash, input)
         IN  /\ res' = Call("encode", hash, input, r)
             /\ pc' = After(r)
             /\ m' = IF r.kind = "Ok" THEN SomeMultihash(r.bytes, "encode") ELSE m
             /\ v' = IF r.kind = "Ok" THEN DropIfFrom({"m"}) ELSE v
    /\ UNCHANGED <<caller, buf>>

\* let v = MultihashRef::from_slice(&buf)
FromSlice ==
    /\ pc = "run"
    /\ buf.some
    /\ LET r == from_slice(buf.bytes)
       IN  /\ res' = Call("from_slice", "none", buf.bytes, r)
           /\ pc' = After(r)
           /\ v' = IF r.kind = "Ok" THEN SomeRef("buf") ELSE v
    /\ UNCHANGED <<caller, buf, m>>

\* let m = Multihash::from_bytes(buf)
FromBytes ==
    /\ pc = "run"
    /\ buf.some
    /\ LET r == from_bytes(buf.bytes)
       IN  /\ res' = Call("from_bytes", "none", buf.bytes, r)
           /\ pc' = After(r)
           /\ m' = IF r.kind = "Ok" THEN SomeMultihash(r.bytes, "from_bytes") ELSE m
           /\ v' = IF r.kind = "Ok" THEN DropIfFrom({"buf", "m"}) ELSE DropIfFrom({"buf"})
    /\ buf' = NoBuf
    /\ UNCHANGED caller

\* let buf = err.data, after from_bytes returned Err(err)
TakeBack ==
    /\ pc = "run"
    /\ res.op = "from_bytes"
    /\ res.kind = "Err"
    /\ ~buf.some
    /\ buf' = SomeBuf(res.bytes)
    /\ UNCHANGED <<caller, m, v, res, pc>>

\* let buf = m.into_bytes()
IntoBytes ==
    /\ pc = "run"
    /\ m.some
    /\ buf' = SomeBuf(into_bytes(m.val))
    /\ m' = NoMultihash
    /\ v' = DropIfFrom({"buf", "m"})
    /\ res' = Call("into_bytes", "none", m.val.bytes, Ok(into_bytes(m.val)))
    /\ UNCHANGED <<caller, pc>>

\* let v = m.as_ref()
AsRef ==
    /\ pc = "run"
    /\ m.some
    /\ v' = SomeRef("m")
    /\ res' = Call("as_ref", "none", m.val.bytes, Ok(as_ref(m.val).bytes))
    /\ UNCHANGED <<caller, buf, m, pc>>

\* let m = v.to_owned()
ToOwned ==
    /\ pc = "run"
    /\ v.some
    /\ m' = SomeMultihash(to_owned(RefVal).bytes, "to_owned")
    /\ v' = IF v.src = "m" THEN NoRef ELSE v
    /\ res' = Call("to_owned", "none", RefVal.bytes, Ok(to_owned(RefVal).bytes))
    /\ UNCHANGED <<caller, buf, pc>>

\* m.algorithm()
AlgorithmOwned ==
    /\ pc = "run"
    /\ m.some
    /\ LET r == Multihash_algorithm(m.val)
       IN  /\ res' = Call("algorithm", r.hash, m.val.bytes, Ret(r.kind, "none", <<>>))
           /\ pc' = After(r)
    /\ UNCHANGED <<caller, buf, m, v>>

\* v.algorithm()
AlgorithmRef ==
    /\ pc = "run"
    /\ v.some
    /\ LET r == algorithm(RefVal)
       IN  /\ res' = Call("algorithm", r.hash, RefVal.bytes, Ret(r.kind, "none", <<>>))
           /\ pc' = After(r)
    /\ UNCHANGED <<caller, buf, m, v>>

\* m.digest()
DigestOwned ==
    /\ pc = "run"
    /\ m.some
    /\ LET r == Multihash_digest(m.val)
       IN  /\ res' = Call("digest", "none", m.val.bytes, r)
           /\ pc' = After(r)
    /\ UNCHANGED <<caller, buf, m, v>>

\* v.digest()
DigestRef ==
    /\ pc = "run"
    /\ v.some
    /\ LET r == digest(RefVal)
       IN  /\ res' = Call("digest", "none", RefVal.bytes, r)
           /\ pc' = After(r)
    /\ UNCHANGED <<caller, buf, m, v>>

\* m == v, v == m, m == v.to_owned(), m.as_ref() == v
Compare ==
    /\ pc = "run"
    /\ m.some
    /\ v.some
    /\ res' = [Call("eq", "none", m.val.bytes, Ok(RefVal.bytes)) EXCEPT
                 !.eq = << eq_owned_ref(m.val, RefVal),
                           eq_ref_owned(RefVal, m.val),
                           eq_owned(m.val, to_owned(RefVal)),
                           eq_ref(as_ref(m.val), RefVal) >>]
    /\ UNCHANGED <<caller, buf, m, v, pc>>

Next ==
    \/ Encode
    \/ FromSlice
    \/ FromBytes
    \/ TakeBack
    \/ IntoBytes
    \/ AsRef
    \/ ToOwned
    \/ AlgorithmOwned
    \/ AlgorithmRef
    \/ DigestOwned
    \/ DigestRef
    \/ Compare

Spec == Init /\ [][Next]_vars

----------------------------------------------------------------------------
(* Properties *)

Decoded == res.op \in {"from_slice", "from_bytes"}

\* the value a successful call returned
Returned == [bytes |-> res.bytes]

\* C1: every call of from_slice and from_bytes, on a byte sequence of any
\* length, returns Ok or an error value; none of them panics.
C1_DecodeNeverAborts == Decoded => res.kind \in {"Ok", "Err"}

\* what encode returns for each algorithm with a digest routine and each input
EncodeOf == [A \in Encoders, input \in Data |-> encode(A, input)]

\* C2: for each of the 11 algorithms with a digest routine and every input,
\* encode succeeds, decoding the bytes it produced succeeds, and the decoded
\* value has that algorithm and the raw digest of the input as its digest.
C2_RoundTrip ==
    /\ (res.op = "encode" /\ res.hash \in Encoders) => res.kind = "Ok"
    /\ Decoded =>
         \A A \in Encoders, input \in Data :
             EncodeOf[A, input] = Ok(res.arg) =>
                 /\ res.kind = "Ok"
                 /\ algorithm(Returned) = [kind |-> "Ok", hash |-> A]
                 /\ digest(Returned) = Ok(RawHash(A, input))

\* a round trip happened: bytes made by encode(Keccak512, "a") were decoded
C2_Witness ==
    /\ res.op = "from_slice"
    /\ res.kind = "Ok"
    /\ res.arg = encode("Keccak512", <<97>>).bytes
    /\ Len(res.arg) = 66

\* the byte at Rust index i, 0 where the input has none (it then fails no check)
ByteAt(input, i) == IF i + 1 <= Len(input) THEN input[i + 1] ELSE 0

\* the validation sequence as stated: the first failing check decides
ReferenceOutcome(input) ==
    IF Len(input) = 0 THEN <<"Err", "BadInputLength">>
    ELSE IF ByteAt(input, 0) >= 128 \/ ByteAt(input, 1) >= 128
         THEN <<"Err", "BadInputLength">>
    ELSE IF ~from_code(ByteAt(input, 0)).some THEN <<"Err", "UnknownCode">>
    ELSE IF Len(input) # Size(from_code(ByteAt(input, 0)).hash) + 2
         THEN <<"Err", "BadInputLength">>
    ELSE IF ByteAt(input, 1) # Size(from_code(ByteAt(input, 0)).hash)
         THEN <<"Err", "BadInputLength">>
    ELSE <<"Ok", "none">>

\* C3: for every input the outcome of from_slice is that of the ordered
\* checks: empty, high bit in byte 0 or 1, unknown tag, total length,
\* declared length; the first failing check decides.
C3_FromSliceFollowsReference ==
    res.op = "from_slice" => <<res.kind, res.error>> = ReferenceOutcome(res.arg)

\* some stated invariant of the envelope fails on the input
BreaksEnvelope(input) ==
    \/ Len(input) < 2
    \/ input[1] >= 128
    \/ input[2] >= 128
    \/ ~from_code(input[1]).some
    \/ Len(input) # 2 + Size(from_code(input[1]).hash)
    \/ input[2] # Size(from_code(input[1]).hash)

\* C4: every value from_slice or from_bytes accepts has 2 + digest().len()
\* bytes, a digest as long as the registry size of algorithm(), that size in
\* byte 1, and bytes 0 and 1 below 128; no input breaking one of these is
\* accepted, and tag 0x12 with declared length 32 and 31 digest bytes is
\* rejected with BadInputLength.
C4_LengthInvariant ==
    Decoded =>
        /\ res.kind = "Ok" =>
              /\ algorithm(Returned).kind = "Ok"
              /\ digest(Returned).kind = "Ok"
              /\ Len(as_bytes(Returned)) = 2 + Len(digest(Returned).bytes)
              /\ Len(digest(Returned).bytes) = Size(algorithm(Returned).hash)
              /\ as_bytes(Returned)[2] = Size(algorithm(Returned).hash)
              /\ as_bytes(Returned)[1] < 128
              /\ as_bytes(Returned)[2] < 128
        /\ BreaksEnvelope(res.arg) => res.kind # "Ok"
        /\ (Len(res.arg) = 33 /\ res.arg[1] = 18 /\ res.arg[2] = 32) =>
              (res.kind = "Err" /\ res.error = "BadInputLength")

\* a supplied SHA2-256 envelope was accepted
C4_Witness ==
    /\ caller = "decoder"
    /\ Decoded
    /\ res.kind = "Ok"
    /\ res.arg[1] = 18
    /\ Len(res.bytes) = 34

C6_EncodeBuildsValidEnvelope ==
    (res.op = "encode" /\ res.kind = "Ok") =>
        /\ Len(res.bytes) = 2 + Size(res.hash)
        /\ res.bytes[1] = Code(res.hash)
        /\ res.bytes[2] = Size(res.hash)
        /\ res.bytes[1] < 128
        /\ res.bytes[2] < 128
        /\ from_code(res.bytes[1]) = SomeHash(res.hash)
        /\ from_slice(res.bytes) = Ok(res.bytes)

\* encode returned an envelope of SHA3-384
C6_Witness ==
    /\ res.op = "encode"
    /\ res.kind = "Ok"
    /\ res.hash = "SHA3384"
    /\ m = SomeMultihash(res.bytes, "encode")

\* the identifiers the claim lists as bound to a digest routine
BoundIds ==
    { "SHA1", "SHA2256", "SHA2512", "SHA3224", "SHA3256", "SHA3384", "SHA3512",
      "Keccak224", "Keccak256", "Keccak384", "Keccak512" }

\* C7: encode returns Err(UnsupportedType) exactly for the identifiers outside
\* the 11 bound ones, Ok for every bound one whatever the input (the empty
\* input included), and never panics.
C7_UnsupportedTypeOnly ==
    res.op = "encode" =>
        /\ res.kind # "Panic"
        /\ res.hash \in BoundIds => res.kind = "Ok"
        /\ res.hash \notin BoundIds =>
              (res.kind = "Err" /\ res.error = "UnsupportedType")
        /\ res.kind = "Err" => res.error = "UnsupportedType"

\* encode refused an identifier that has no digest routine
C7_Witness ==
    /\ res.op = "encode"
    /\ res.hash = "Blake2b"
    /\ res.kind = "Err"
    /\ res.arg = <<>>

\* C8: m == v, v == m, and the owned/owned and view/view comparisons of the
\* same two values, all hold exactly when the two byte sequences are
\* identical; so a Multihash equals a view of itself in both directions.
C8_EqualityIsByteEquality ==
    /\ res.op = "eq" =>
          \A i \in 1..4 : res.eq[i] = (res.arg = res.bytes)
    /\ (res.op = "eq" /\ v.src = "m") => res.eq = <<TRUE, TRUE, TRUE, TRUE>>

\* two envelopes of one algorithm with different digests were compared
C8_Witness ==
    /\ res.op = "eq"
    /\ res.arg # res.bytes
    /\ SubSeq(res.arg, 1, 2) = SubSeq(res.bytes, 1, 2)
    /\ res.eq = <<FALSE, FALSE, FALSE, FALSE>>

\* the supported set as listed: identifier, tag, digest length
ListedRegistry ==
    { <<"SHA1", 17, 20>>, <<"SHA2256", 18, 32>>, <<"SHA2512", 19, 64>>,
      <<"SHA3512", 20, 64>>, <<"SHA3384", 21, 48>>, <<"SHA3256", 22, 32>>,
      <<"SHA3224", 23, 28>>, <<"Keccak224", 26, 28>>, <<"Keccak256", 27, 32>>,
      <<"Keccak384", 28, 48>>, <<"Keccak512", 29, 64>> }

\* the tables of the registry, against each other and against the list
TablesConsistent ==
    /\ \A h1, h2 \in HashIds : Code(h1) = Code(h2) => h1 = h2
    /\ \A h \in HashIds : Code(h) < 128 /\ Size(h) < 128
    /\ \A h \in HashIds : from_code(Code(h)) = SomeHash(h)
    /\ \A t \in 0..255 : t \notin { Code(h) : h \in HashIds } => ~from_code(t).some
    /\ { <<h, Code(h), Size(h)>> : h \in Encoders } = ListedRegistry

\* C9: tags are unique across the identifiers, every tag and digest length
\* is below 128, from_code inverts code and is absent for every other tag,
\* and the supported set is the listed one; encode writes the listed tag and
\* length of its identifier.
C9_RegistryConsistent ==
    /\ TablesConsistent
    /\ (res.op = "encode" /\ res.kind = "Ok") =>
          <<res.hash, res.bytes[1], res.bytes[2]>> \in ListedRegistry
    /\ (Decoded /\ res.kind = "Ok") =>
          \E h \in HashIds : res.bytes[1] = Code(h) /\ res.bytes[2] = Size(h)

\* encode looked Keccak-512 up in the registry and wrote 0x1D, 64
C9_Witness ==
    /\ res.op = "encode"
    /\ res.kind = "Ok"
    /\ res.hash = "Keccak512"
    /\ res.bytes[1] = 29
    /\ res.bytes[2] = 64

\* C10: on every Multihash and MultihashRef the caller can hold, whichever
\* calls produced it, algorithm() resolves the tag and digest() returns the
\* bytes after the two header bytes; neither panics.
C10_AccessorsInfallible ==
    /\ m.some =>
          /\ Multihash_algorithm(m.val).kind = "Ok"
          /\ Multihash_digest(m.val).kind = "Ok"
          /\ Len(Multihash_digest(m.val).bytes) + 2 = Len(m.val.bytes)
    /\ v.some =>
          /\ algorithm(RefVal).kind = "Ok"
          /\ digest(RefVal).kind = "Ok"
          /\ Len(digest(RefVal).bytes) + 2 = Len(RefVal.bytes)
    /\ res.op \in {"algorithm", "digest"} =>
          /\ res.kind = "Ok"
          /\ res.op = "digest" =>
                \A i \in 1..Len(res.bytes) : res.bytes[i] = res.arg[i + 2]

\* algorithm() was called on a Multihash that encode built and nothing validated
C10_Witness ==
    /\ m.some
    /\ m.via = "encode"
    /\ res.op = "algorithm"
    /\ res.arg = m.val.bytes
    /\ res.kind = "Ok"
    /\ res.hash = "SHA2256"

====
